---- MODULE Spec2Model ----
(***************************************************************************)
(* Model of glutils' ownership guard GL::Guard<HandleType>                 *)
(* (include/glutils/guard.hpp) and of the batching bind helpers            *)
(* BufferHandle::bindRanges / BufferHandle::bindBases (buffer.hpp).        *)
(*                                                                         *)
(* A handle is the integer name of a native object; NullHandle is the      *)
(* default-constructed handle.  HandleType::destroy is observed through    *)
(* the per-handle call counter `destroyed`, HandleType::create through the *)
(* set `created` of the names it has returned.                             *)
(***************************************************************************)
EXTENDS Integers, Sequences, FiniteSets

\* ---------------------------------------------------------------- bounds
NumGuards == 2      \* Guard objects a run may construct
MaxHandle == 2      \* non-null handle names are 1..MaxHandle
MaxDestroy == 3     \* cap on the destroy calls a run records
MaxLen == 2         \* longest input sequence given to bindRanges/bindBases
MaxName == 1        \* buffer names are 0..MaxName
MaxVal == 1         \* offsets, sizes and first_binding are 0..MaxVal

VARIABLES
    life,           \* life[g]: "unborn", "live" or "dead" (object lifetime of Guard g)
    m_handle,       \* m_handle[g]: Guard::m_handle (NullHandle once g is dead)
    destroyed,      \* destroyed[h]: number of HandleType::destroy(h) calls so far
    created,        \* handles returned by HandleType::create so far
    handedOut,      \* non-null handles the caller got back from a release() call
    watch,          \* one release() call kept under observation: who released what
    misused,        \* TRUE once a Guard was handed a handle that was owned or destroyed
    observer,       \* which of handedOut / watch this specification records
    pc,             \* position inside bindRanges / bindBases
    fn,             \* which of the two is running
    target,         \* argument target
    first_binding,  \* argument first_binding
    input,          \* the sequence [begin, end)
    iter,           \* index of the element iter points at
    buffers,        \* std::vector<GLuint> buffers
    offsets,        \* std::vector<GLintptr> offsets
    sizes,          \* std::vector<GLintptr> sizes
    count,          \* GLsizei count
    calls           \* the s_bindRange / s_bindBases calls made by this invocation

guardVars == <<life, m_handle, destroyed, created, handedOut, watch, misused, observer>>
bindVars == <<pc, fn, target, first_binding, input, iter, buffers, offsets, sizes, count, calls>>
vars == <<guardVars, bindVars>>

\* ---------------------------------------------------------------- Guard
Guards == 1..NumGuards
NullHandle == 0
Handles == 0..MaxHandle
Objects == 1..MaxHandle

NoWatch == [g |-> 0, h |-> NullHandle]

Live(g) == life[g] = "live"

\* HandleType::create(args...): a name no earlier create returned.  Names are
\* handed out in increasing order (the Guard never looks at the value).
create == {h \in Objects \ created : \A k \in Objects \ created : h <= k}

\* HandleType::destroy(h), as one more recorded call on h.
destroy(d, h) == [d EXCEPT ![h] = @ + 1]

\* release() that forgets to null m_handle.
releaseKeeps(mh, g) == [ret |-> mh[g], m |-> mh]

\* release() that nulls m_handle first and returns it afterwards.
releaseClearFirst(mh, g) == [ret |-> NullHandle, m |-> [mh EXCEPT ![g] = NullHandle]]

\* Guard::release on guard g, given the handle map mh.
release(mh, g) == [ret |-> mh[g], m |-> [mh EXCEPT ![g] = NullHandle]]

\* reset() that assigns before it destroys, so that it destroys new_handle.
resetAssignFirst(mh, d, g, new_handle) ==
    [m |-> [mh EXCEPT ![g] = new_handle], d |-> destroy(d, new_handle)]

\* reset() that overwrites m_handle without destroying the old object.
resetNoDestroy(mh, d, g, new_handle) ==
    [m |-> [mh EXCEPT ![g] = new_handle], d |-> d]

\* Guard::reset(new_handle) on guard g.
reset(mh, d, g, new_handle) ==
    [m |-> [mh EXCEPT ![g] = new_handle], d |-> destroy(d, mh[g])]

\* Guard::~Guard on guard g.
dtor(mh, d, g) == destroy(d, mh[g])

\* Move constructor that copies other's handle without releasing it.
moveConstructCopy(mh, g, other) == [mh EXCEPT ![g] = mh[other]]

\* Guard::Guard(Guard &&other): m_handle(other.release()).
moveConstruct(mh, g, other) ==
    LET r == release(mh, other)
    IN  [r.m EXCEPT ![g] = r.ret]

\* Move assignment that takes other's handle without destroying its own object.
moveAssignLeak(mh, d, g, other) ==
    LET r == release(mh, other)
    IN  [m |-> [r.m EXCEPT ![g] = r.ret], d |-> d]

\* Move assignment that resets to other's handle without releasing it from other.
moveAssignKeepsOther(mh, d, g, other) == reset(mh, d, g, mh[other])

\* Guard::operator=(Guard &&other): reset(other.release()).
moveAssign(mh, d, g, other) ==
    LET r == release(mh, other)
    IN  reset(r.m, d, g, r.ret)

\* The handles a caller can pass in: the null handle, or any handle a Guard's
\* getHandle()/release() can have given it.
Known == {NullHandle} \cup created

\* Handle h is handed to a Guard while a live Guard holds it, or after it was destroyed.
Misuse(h) ==
    /\ h # NullHandle
    /\ \/ \E g2 \in Guards : Live(g2) /\ m_handle[g2] = h
       \/ destroyed[h] > 0

RECURSIVE Total(_, _)
Total(d, h) == IF h < 0 THEN 0 ELSE d[h] + Total(d, h - 1)

WithinCap(d) == Total(d, MaxHandle) <= MaxDestroy

CreateConstruct(g) ==
    /\ life[g] = "unborn"
    /\ \E h \in create :
        /\ m_handle' = [m_handle EXCEPT ![g] = h]
        /\ created' = created \cup {h}
    /\ life' = [life EXCEPT ![g] = "live"]
    /\ UNCHANGED <<destroyed, handedOut, watch, misused, observer, bindVars>>

AdoptConstruct(g, handle) ==
    /\ life[g] = "unborn"
    /\ handle \in Known
    /\ m_handle' = [m_handle EXCEPT ![g] = handle]
    /\ misused' = (misused \/ Misuse(handle))
    /\ life' = [life EXCEPT ![g] = "live"]
    /\ UNCHANGED <<destroyed, created, handedOut, watch, observer, bindVars>>

Destruct(g) ==
    /\ Live(g)
    /\ WithinCap(dtor(m_handle, destroyed, g))
    /\ destroyed' = dtor(m_handle, destroyed, g)
    /\ life' = [life EXCEPT ![g] = "dead"]
    /\ m_handle' = [m_handle EXCEPT ![g] = NullHandle]
    /\ UNCHANGED <<created, handedOut, watch, misused, observer, bindVars>>

MoveConstruct(g, other) ==
    /\ life[g] = "unborn"
    /\ Live(other)
    /\ m_handle' = moveConstruct(m_handle, g, other)
    /\ life' = [life EXCEPT ![g] = "live"]
    /\ UNCHANGED <<destroyed, created, handedOut, watch, misused, observer, bindVars>>

MoveAssign(g, other) ==
    /\ Live(g)
    /\ Live(other)
    /\ LET s == moveAssign(m_handle, destroyed, g, other)
       IN  /\ WithinCap(s.d)
           /\ m_handle' = s.m
           /\ destroyed' = s.d
    /\ UNCHANGED <<life, created, handedOut, watch, misused, observer, bindVars>>

Release(g) ==
    /\ Live(g)
    /\ LET r == release(m_handle, g)
       IN  /\ m_handle' = r.m
           /\ handedOut' = IF observer = "handedOut"
                             THEN handedOut \cup ({r.ret} \ {NullHandle})
                             ELSE handedOut
           /\ watch' \in {watch} \cup
                         (IF observer = "watch" THEN {[g |-> g, h |-> r.ret]} ELSE {})
    /\ UNCHANGED <<life, destroyed, created, misused, observer, bindVars>>

Reset(g, new_handle) ==
    /\ Live(g)
    /\ new_handle \in Known
    /\ LET s == reset(m_handle, destroyed, g, new_handle)
       IN  /\ WithinCap(s.d)
           /\ m_handle' = s.m
           /\ destroyed' = s.d
    /\ misused' = (misused \/ Misuse(new_handle))
    /\ UNCHANGED <<life, created, handedOut, watch, observer, bindVars>>

GuardInit ==
    /\ life = [g \in Guards |-> "unborn"]
    /\ m_handle = [g \in Guards |-> NullHandle]
    /\ destroyed = [h \in Handles |-> 0]
    /\ created = {}
    /\ handedOut = {}
    /\ watch = NoWatch
    /\ misused = FALSE

BindInit ==
    /\ pc = "idle"
    /\ fn = "none"
    /\ target = "uniform"
    /\ first_binding = 0
    /\ input = <<>>
    /\ iter = 1
    /\ buffers = <<>>
    /\ offsets = <<>>
    /\ sizes = <<>>
    /\ count = 0
    /\ calls = <<>>

Init == GuardInit /\ BindInit /\ observer = "handedOut"

InitWatch == GuardInit /\ BindInit /\ observer = "watch"

Next ==
    \/ \E g \in Guards : CreateConstruct(g)
    \/ \E g \in Guards, h \in Handles : AdoptConstruct(g, h)
    \/ \E g \in Guards : Destruct(g)
    \/ \E g, other \in Guards : MoveConstruct(g, other)
    \/ \E g, other \in Guards : MoveAssign(g, other)
    \/ \E g \in Guards : Release(g)
    \/ \E g \in Guards, h \in Handles : Reset(g, h)

\* Guard operations, recording which handles release() handed out.
Spec == Init /\ [][Next]_vars

\* Guard operations, keeping one release() call under observation.
SpecWatch == InitWatch /\ [][Next]_vars

\* ---------------------------------------------------------------- claims on Guard

AllDestructed == \A g \in Guards : ~Live(g)

SingleOwner ==
    \A g1, g2 \in Guards :
        (g1 # g2 /\ Live(g1) /\ Live(g2) /\ m_handle[g1] # NullHandle)
            => m_handle[g1] # m_handle[g2]

\* A Guard(HandleType) construction or a reset() that is given a non-null handle
\* which another live Guard holds at that moment.
HandedSharedHandle ==
    \E g \in Guards, h \in Objects :
        /\ AdoptConstruct(g, h) \/ Reset(g, h)
        /\ \E g2 \in Guards \ {g} : Live(g2) /\ m_handle[g2] = h

\* C1 as stated: after any sequence of Guard operations, no two live Guards hold
\* the same non-null handle.
C1_SingleOwnerAlways == SingleOwner

\* C1 amended: single ownership is preserved by every Guard operation except a
\* Guard(HandleType) construction or reset() that is handed a non-null handle
\* another live Guard holds; without such a call no two live Guards ever hold
\* the same non-null handle.
C1_SingleOwnerUnlessHandedShared ==
    [][(SingleOwner /\ ~HandedSharedHandle) => SingleOwner']_vars

C1_Witness ==
    /\ ~misused
    /\ \E g1, g2 \in Guards :
        /\ g1 # g2 /\ Live(g1) /\ Live(g2)
        /\ m_handle[g1] # NullHandle /\ m_handle[g2] # NullHandle
        /\ m_handle[g1] # m_handle[g2]

AtMostOnce == \A h \in Objects : destroyed[h] <= 1

\* C2 as stated: for every sequence of Guard operations, destroy is invoked at
\* most once on any non-null handle.
C2_DestroyedAtMostOnceAlways == AtMostOnce

\* C2 amended: destroy is invoked at most once on any non-null handle, provided
\* no Guard(HandleType) construction or reset() was given a non-null handle that
\* a live Guard (the receiving one included) held or that was already destroyed.
C2_DestroyedAtMostOnceUnlessMisused == (~misused) => AtMostOnce

C2_Witness ==
    /\ ~misused
    /\ AllDestructed
    /\ \A h \in Objects : destroyed[h] = 1

\* C3: once no Guard is alive any more, every object a Guard constructor created
\* and release() never handed out has been destroyed.
C3_NoLeak ==
    AllDestructed => \A h \in created \ handedOut : destroyed[h] >= 1

C3_Witness ==
    /\ AllDestructed
    /\ \E g \in Guards : life[g] = "dead"
    /\ handedOut # {}
    /\ \E h \in created \ handedOut : destroyed[h] = 1

\* What move assignment a = std::move(b) does to a's and b's handles and to a's
\* previous object.
MoveAssignEffect(a, b) ==
    /\ destroyed'[m_handle[a]] = destroyed[m_handle[a]] + 1
    /\ m_handle'[a] = m_handle[b]
    /\ m_handle'[b] = NullHandle

TransferredKept(b) ==
    m_handle[b] # NullHandle => destroyed'[m_handle[b]] = destroyed[m_handle[b]]

\* C4 as stated: for distinct a and b, a = std::move(b) makes one destroy call on
\* the handle a held, leaves a with b's handle and b null, and does not destroy
\* the object transferred from b.
C4_MoveAssignAlways ==
    [][\A a, b \in Guards :
        (a # b /\ MoveAssign(a, b)) => (MoveAssignEffect(a, b) /\ TransferredKept(b))]_vars

\* C4 amended: the same, provided a and b do not hold the same non-null handle
\* before the assignment.
C4_MoveAssignDistinctHandles ==
    [][\A a, b \in Guards :
        (a # b /\ MoveAssign(a, b)
             /\ (m_handle[a] # m_handle[b] \/ m_handle[b] = NullHandle))
            => (MoveAssignEffect(a, b) /\ TransferredKept(b))]_vars

C4_Witness ==
    /\ ~misused /\ handedOut = {}
    /\ created = Objects
    /\ \E a, b \in Guards :
        /\ a # b /\ Live(a) /\ Live(b)
        /\ m_handle[a] # NullHandle /\ m_handle[b] = NullHandle
        /\ \E old \in Objects \ {m_handle[a]} : destroyed[old] = 1
        /\ destroyed[m_handle[a]] = 0
    /\ destroyed[NullHandle] = 0

\* C5: move construction Guard a(std::move(b)) leaves a with the handle b held,
\* b with the null handle, and calls neither create nor destroy.
C5_MoveConstruct ==
    [][\A a, b \in Guards :
        MoveConstruct(a, b) =>
            /\ m_handle'[a] = m_handle[b]
            /\ m_handle'[b] = NullHandle
            /\ destroyed' = destroyed
            /\ created' = created]_vars

C5_Witness ==
    /\ ~misused /\ handedOut = {}
    /\ \A h \in Handles : destroyed[h] = 0
    /\ \E a, b \in Guards :
        /\ Live(a) /\ Live(b)
        /\ m_handle[a] # NullHandle /\ m_handle[b] = NullHandle
        /\ created = {m_handle[a]}

\* What release() does at once: it returns the handle held before (recorded in
\* watch when the call is observed), nulls m_handle and makes no destroy call.
ReleaseEffect ==
    \A g \in Guards :
        Release(g) =>
            /\ m_handle'[g] = NullHandle
            /\ destroyed' = destroyed
            /\ watch' # watch => watch' = [g |-> g, h |-> m_handle[g]]

DestructOrReset(g) == Destruct(g) \/ \E h \in Handles : Reset(g, h)

\* C6 as stated: release() returns the handle held before, nulls the Guard, makes
\* no destroy call, and no later destruction or reset of that Guard destroys the
\* released object.
C6_ReleaseNeverDestroyedLater ==
    [][/\ ReleaseEffect
       /\ \A g \in Guards :
            (watch.g = g /\ watch.h # NullHandle /\ DestructOrReset(g))
                => destroyed'[watch.h] = destroyed[watch.h]]_vars

\* C6 amended: the same, except that a later destruction or reset of that Guard
\* does destroy the released object when the Guard holds that handle again (it
\* was given back by reset or move assignment).
C6_ReleaseNotDestroyedUnlessHeldAgain ==
    [][/\ ReleaseEffect
       /\ \A g \in Guards :
            (watch.g = g /\ watch.h # NullHandle /\ m_handle[g] # watch.h
                 /\ DestructOrReset(g))
                => destroyed'[watch.h] = destroyed[watch.h]]_vars

C6_Witness ==
    /\ watch.g \in Guards
    /\ watch.h # NullHandle
    /\ life[watch.g] = "dead"
    /\ destroyed[watch.h] = 0

\* What reset(new_handle) does to the Guard and to the object it held.
ResetEffect(g, new_handle) ==
    /\ destroyed'[m_handle[g]] = destroyed[m_handle[g]] + 1
    /\ m_handle'[g] = new_handle

NewHandleKept(new_handle) ==
    new_handle # NullHandle => destroyed'[new_handle] = destroyed[new_handle]

\* C7 as stated: reset(new_handle) makes one destroy call on the handle held
\* before, leaves the Guard with new_handle, and does not destroy new_handle,
\* for any new_handle.
C7_ResetAlways ==
    [][\A g \in Guards, h \in Handles :
        Reset(g, h) => (ResetEffect(g, h) /\ NewHandleKept(h))]_vars

\* C7 amended: the same for any new_handle other than the non-null handle the
\* Guard holds at the call.
C7_ResetOtherHandle ==
    [][\A g \in Guards, h \in Handles :
        (Reset(g, h) /\ (h # m_handle[g] \/ h = NullHandle))
            => (ResetEffect(g, h) /\ NewHandleKept(h))]_vars

C7_Witness ==
    /\ ~misused /\ handedOut = {}
    /\ created = Objects
    /\ \E g \in Guards :
        /\ Live(g) /\ m_handle[g] # NullHandle
        /\ destroyed[m_handle[g]] = 0
        /\ \E old \in Objects \ {m_handle[g]} : destroyed[old] = 1
        /\ \A g2 \in Guards \ {g} : life[g2] = "dead"
    /\ destroyed[NullHandle] = 1

\* C8: release(), being moved from and reset(null) leave a Guard with the null
\* handle, and destructing or resetting a Guard that holds the null handle
\* makes no destroy call on a non-null handle.
C8_NullGuardUnused ==
    [][\A g \in Guards :
        /\ Release(g) => m_handle'[g] = NullHandle
        /\ Reset(g, NullHandle) => m_handle'[g] = NullHandle
        /\ \A a \in Guards \ {g} :
            (MoveConstruct(a, g) \/ MoveAssign(a, g)) => m_handle'[g] = NullHandle
        /\ (m_handle[g] = NullHandle /\ DestructOrReset(g))
            => \A h \in Objects : destroyed'[h] = destroyed[h]]_vars

C8_Witness ==
    /\ handedOut # {}
    /\ \A h \in Objects : destroyed[h] = 0
    /\ destroyed[NullHandle] = MaxDestroy
    /\ AllDestructed
    /\ \E g \in Guards : life[g] = "dead"

\* ---------------------------------------------------------------- BufferHandle::bindRanges / bindBases

\* enum class IndexedTarget
IndexedTarget == {"atomic_counter", "transform_feedback", "uniform", "shader_storage"}

BufferNames == 0..MaxName
Values == 0..MaxVal

\* A BufferHandle, as the GLuint name it wraps, and BufferHandle::Range.
BufferHandle == [name : BufferNames]
Range == [offset : Values, size : Values]

getName(buffer) == buffer.name

SeqsUpTo(S, n) == UNION {[1..k -> S] : k \in 0..n}

\* The inputs [begin, end) of bindRanges: pairs of a buffer and a range.
RangeInputs == SeqsUpTo(BufferHandle \X Range, MaxLen)

\* The inputs [begin_buffer, end_buffer) of bindBases: buffers.
BaseInputs == SeqsUpTo(BufferHandle, MaxLen)

\* Loop body of bindRanges with offsets and sizes filled from the wrong fields.
rangesBodySwapped(b, o, s, c, elem) ==
    [buffers |-> Append(b, getName(elem[1])),
     offsets |-> Append(o, elem[2].size),
     sizes |-> Append(s, elem[2].offset),
     count |-> c + 1]

\* Loop body of bindRanges: const auto [buffer, range] = *iter++; three
\* emplace_back calls; count++.
rangesBody(b, o, s, c, elem) ==
    [buffers |-> Append(b, getName(elem[1])),
     offsets |-> Append(o, elem[2].offset),
     sizes |-> Append(s, elem[2].size),
     count |-> c + 1]

\* Loop body of bindBases that inserts at the front of the vector.
basesBodyFront(b, c, elem) ==
    [buffers |-> <<getName(elem)>> \o b, count |-> c + 1]

\* Loop body of bindBases: buffers.emplace_back(iter++->getName()); count++.
basesBody(b, c, elem) ==
    [buffers |-> Append(b, getName(elem)), count |-> c + 1]

\* The call s_bindRange(target, first_binding, count, buffers.data(),
\* offsets.data(), sizes.data()), the arrays seen as their count-long contents.
s_bindRange(t, fb, c, b, o, s) ==
    [fn |-> "s_bindRange", target |-> t, first_binding |-> fb, count |-> c,
     buffers |-> b, offsets |-> o, sizes |-> s]

\* The call s_bindBases(target, first_binding, count, buffers.data()).
s_bindBases(t, fb, c, b) ==
    [fn |-> "s_bindBases", target |-> t, first_binding |-> fb, count |-> c,
     buffers |-> b]

\* Entry of either template: the vectors are empty, count = 0, iter = begin.
Enter(f, t, fb, in) ==
    /\ pc = "idle"
    /\ pc' = "loop"
    /\ fn' = f
    /\ target' = t
    /\ first_binding' = fb
    /\ input' = in
    /\ iter' = 1
    /\ buffers' = <<>>
    /\ offsets' = <<>>
    /\ sizes' = <<>>
    /\ count' = 0
    /\ calls' = <<>>
    /\ UNCHANGED guardVars

BindRangesEnter ==
    /\ pc = "idle"
    /\ \E t \in IndexedTarget, fb \in Values, in \in RangeInputs :
        Enter("bindRanges", t, fb, in)

BindRangesLoop ==
    /\ pc = "loop" /\ fn = "bindRanges"
    /\ iter <= Len(input)
    /\ LET r == rangesBody(buffers, offsets, sizes, count, input[iter])
       IN  /\ buffers' = r.buffers
           /\ offsets' = r.offsets
           /\ sizes' = r.sizes
           /\ count' = r.count
    /\ iter' = iter + 1
    /\ UNCHANGED <<pc, fn, target, first_binding, input, calls, guardVars>>

BindRangesCall ==
    /\ pc = "loop" /\ fn = "bindRanges"
    /\ iter > Len(input)
    /\ calls' = Append(calls, s_bindRange(target, first_binding, count, buffers, offsets, sizes))
    /\ pc' = "done"
    /\ UNCHANGED <<fn, target, first_binding, input, iter, buffers, offsets, sizes, count, guardVars>>

BindBasesEnter ==
    /\ pc = "idle"
    /\ \E t \in IndexedTarget, fb \in Values, in \in BaseInputs :
        Enter("bindBases", t, fb, in)

BindBasesLoop ==
    /\ pc = "loop" /\ fn = "bindBases"
    /\ iter <= Len(input)
    /\ LET r == basesBody(buffers, count, input[iter])
       IN  /\ buffers' = r.buffers
           /\ count' = r.count
    /\ iter' = iter + 1
    /\ UNCHANGED <<pc, fn, target, first_binding, input, offsets, sizes, calls, guardVars>>

BindBasesCall ==
    /\ pc = "loop" /\ fn = "bindBases"
    /\ iter > Len(input)
    /\ calls' = Append(calls, s_bindBases(target, first_binding, count, buffers))
    /\ pc' = "done"
    /\ UNCHANGED <<fn, target, first_binding, input, iter, buffers, offsets, sizes, count, guardVars>>

\* The template returns; its locals are gone.
Return ==
    /\ pc = "done"
    /\ pc' = "idle"
    /\ fn' = "none"
    /\ target' = "uniform"
    /\ first_binding' = 0
    /\ input' = <<>>
    /\ iter' = 1
    /\ buffers' = <<>>
    /\ offsets' = <<>>
    /\ sizes' = <<>>
    /\ count' = 0
    /\ calls' = <<>>
    /\ UNCHANGED guardVars

NextBind ==
    \/ BindRangesEnter
    \/ BindRangesLoop
    \/ BindRangesCall
    \/ BindBasesEnter
    \/ BindBasesLoop
    \/ BindBasesCall
    \/ Return

\* Calls of bindRanges and bindBases, one at a time.
SpecBind == Init /\ [][NextBind]_vars

\* ---------------------------------------------------------------- claims on bindRanges / bindBases

\* C9: bindRanges makes no s_bindRange call before its loop ends and exactly one
\* when it returns, with the given target and first_binding, count = number of
\* pairs, and the i-th entries of the three arrays equal to the i-th pair's
\* buffer name, range.offset and range.size.
C9_BindRangesOneCall ==
    fn = "bindRanges" =>
        IF pc = "done"
        THEN calls = << [fn |-> "s_bindRange", target |-> target,
                         first_binding |-> first_binding,
                         count |-> Len(input),
                         buffers |-> [i \in 1..Len(input) |-> input[i][1].name],
                         offsets |-> [i \in 1..Len(input) |-> input[i][2].offset],
                         sizes |-> [i \in 1..Len(input) |-> input[i][2].size]] >>
        ELSE calls = <<>>

C9_Witness ==
    /\ fn = "bindRanges" /\ pc = "done"
    /\ Len(input) = MaxLen
    /\ input[1][1].name # input[2][1].name
    /\ input[1][2].offset # input[1][2].size
    /\ input[1][2].offset # input[2][2].offset
    /\ Len(calls) = 1

\* C10: bindBases makes no s_bindBases call before its loop ends and exactly one
\* when it returns, with the given target and first_binding, count = number of
\* buffers, and the i-th entry of the names array equal to the i-th buffer's name.
C10_BindBasesOneCall ==
    fn = "bindBases" =>
        IF pc = "done"
        THEN calls = << [fn |-> "s_bindBases", target |-> target,
                         first_binding |-> first_binding,
                         count |-> Len(input),
                         buffers |-> [i \in 1..Len(input) |-> input[i].name]] >>
        ELSE calls = <<>>

C10_Witness ==
    /\ fn = "bindBases" /\ pc = "done"
    /\ Len(input) = MaxLen
    /\ input[1].name # input[2].name
    /\ Len(calls) = 1

====
